---- MODULE Spec2Model ----
(***************************************************************************)
(* State-machine model of the random beacon (pkg/consensus/random_beacon.go)*)
(* and of the inventory handler of the networking component                *)
(* (pkg/consensus/networking.go).                                          *)
(*                                                                         *)
(* Beacon operations that hold RandomBeacon.mu for their whole body and    *)
(* touch nothing outside the beacon are single actions guarded by the lock *)
(* being free.  RecvRandBeaconSig is split at every assignment it makes,   *)
(* and Rank, which never takes the lock, is split at its two reads of      *)
(* shared state, so that their interleavings are explored.                 *)
(***************************************************************************)
EXTENDS Integers, Sequences, FiniteSets, Bags, TLC

\* ------------------------------------------------------------------ bounds
\* sigHistory never grows beyond MaxHist entries (calls stop being issued).
MaxHist == 3
\* Signature byte strings are 0 .. NSig-1.
NSig == 2

\* ------------------------------------------------------- program constants
GroupSize == 3
GroupThreshold == 2

\* The 0th signature, []byte("DEX random beacon 0th signature").
GenesisSig == 0

\* Domain-separation tags of the three streams.
RBSeedTag == 11
BPSeedTag == 12
NtSeedTag == 13

\* groups: the ordered group list, each group its ordered member list.
Groups == << <<1, 2, 3>>, <<3, 4, 5>> >>
NGroups == Len(Groups)

\* Addresses handed to Rank: a member of the first group only, a member of
\* both groups, and a member of no group.
Addrs == {1, 3, 6}

\* ------------------------------------------------------ abstract primitives
\* Digests are 0 .. HashSpace-1, Rand states are 0 .. RandSpace-1.
HashSpace == 5
RandSpace == 16

\* hash(bytes): a digest of a byte string, injective on the strings used.
hash(b) == (b * 7 + 2) % HashSpace

\* Rand.Derive(bytes): the next stream state, a function of (state, bytes).
Derive(r, b) == (r * 5 + b * 3 + 1) % RandSpace

\* Rand.Mod(n): an index in 0 .. n-1, a reduction of the state.
Mod(r, n) == r % n

\* The initial seed handed to NewRandomBeacon.
Seed == 7

Sigs == 0 .. (NSig - 1)
HashVals == {hash(b) : b \in Sigs}

\* A RandBeaconSig; NilSig stands for the nil pointer.
NilSig == [Round |-> -1, LastRandVal |-> -1, Sig |-> -1]

\* RandBeaconSigShare.Hash(): digest of the encoded share, injective.
ShareHash(s) == (s.Round * 10 + s.Owner) * 10 + s.LastSigHash

VARIABLES
    sigHistory,         \* []*RandBeaconSig
    curRoundShares,     \* map[Hash]*RandBeaconSigShare
    rbRand, ntRand, bpRand,
    nextRBCmteHistory, nextNtCmteHistory, nextBPCmteHistory,
    mu,                 \* RandomBeacon.mu: 0 when free, else the holder
    pc, arg,            \* RecvRandBeaconSig callers: position and argument
    entry,              \* beacon state seen by the holder when it passed the round check
    rankPc, rankAddr, rankBP,   \* the Rank caller
    ret,                \* what the step just taken returned (NoRet: nothing)
    crashed,            \* the process has panicked
    peers,              \* Networking.peers: the addresses with a Peer
    chainRound,         \* n.chain.Round()
    chainBlocks, chainBPs, chainNtShares,   \* hashes n.chain holds, by kind
    chainNeedNotarize,  \* the Refs for which n.chain.NeedNotarize is true
    chainFinalized,     \* n.chain.FinalizedChain(): the finalized blocks, by hash
    inbox,              \* Inventory messages in flight to this node
    invDone,            \* the Inventory message handled by the step just taken
    nmu,                \* Networking.mu: 0 when free, 1 while recvInventory holds it
                        \* across a network call
    startCall,          \* the call of Start: its position, the seed's history, the
                        \* signatures of Sync left to apply, the error returned
    netOut,             \* the calls that handler made on the network, in order
    srvDone,            \* the GetData request handled by the step just taken
    peerAcc,            \* the accesses that step made to n.peers and n.peerAddrs
    tasks,              \* the goroutines started with `go` that have not run yet (a bag)
    spawned,            \* the goroutines the step just taken started, in order
    vSigs,              \* the Sig bytes of the RandBeaconSig the validator accepts
    vOwners             \* the owners of the RandBeaconSigShare the validator accepts

beaconState == <<sigHistory, curRoundShares, rbRand, ntRand, bpRand,
                 nextRBCmteHistory, nextNtCmteHistory, nextBPCmteHistory>>
cmteState == <<rbRand, ntRand, bpRand,
               nextRBCmteHistory, nextNtCmteHistory, nextBPCmteHistory>>
sigCallers == <<mu, pc, arg, entry>>
rankCaller == <<rankPc, rankAddr, rankBP>>
chainState == <<chainRound, chainBlocks, chainBPs, chainNtShares, chainNeedNotarize,
                chainFinalized>>
srvState == <<srvDone, peerAcc>>
taskState == <<tasks, spawned>>
validatorState == <<vSigs, vOwners>>
netState == <<peers, chainState, inbox, invDone, nmu, startCall, netOut, srvState,
              taskState, validatorState>>
vars == <<beaconState, sigCallers, rankCaller, ret, crashed, netState>>

Procs == {1, 2}

Last(s) == s[Len(s)]

\* RandomBeacon.round()
round == Len(sigHistory)

NoEntry == [round |-> 0, rb |-> 0, nt |-> 0, bp |-> 0, hrb |-> <<>>, hnt |-> <<>>, hbp |-> <<>>]
NoRet == [op |-> "none", err |-> FALSE, sig |-> NilSig, val |-> <<>>]

EmptyShares == [h \in {} |-> NilSig]

\* Rounds carried by received artifacts: stale, current and future.
InputRounds == (round - 1) .. (round + 1)

\* The RandBeaconSig values received (RecvRandBeaconSig never reads LastRandVal).
SigInputs == [Round : InputRounds, LastRandVal : {hash(GenesisSig)}, Sig : Sigs]

\* The RandBeaconSigShare values received (the Sig bytes of a share are
\* determined by its owner and the message it signs).
ShareInputs == [Round : InputRounds, Owner : 1 .. GroupSize, LastSigHash : HashVals]

NoInv == [sender |-> 0, ids |-> <<>>, outcome |-> "none"]
NoReq == [requester |-> 0, ids |-> <<>>, outcome |-> "none"]
\* Start is not running.
NoStart == [pc |-> "none", seed |-> <<>>, rb |-> <<>>, err |-> "none"]

\* No goroutine is pending and n.mu is free; the validator accepts every
\* artifact.
TaskIdle ==
    /\ tasks = EmptyBag
    /\ nmu = 0
    /\ startCall = NoStart
    /\ spawned = <<>>
    /\ vSigs = Sigs
    /\ vOwners = 1 .. GroupSize

\* NewNetworking: no peers; the chain is at its first round and holds nothing.
NetInit ==
    /\ peers = {}
    /\ chainRound = 1
    /\ chainBlocks = {}
    /\ chainBPs = {}
    /\ chainNtShares = {}
    /\ chainNeedNotarize = {}
    /\ chainFinalized = <<>>
    /\ inbox = <<>>
    /\ invDone = NoInv
    /\ netOut = <<>>
    /\ srvDone = NoReq
    /\ peerAcc = <<>>
    /\ TaskIdle

\* NewRandomBeacon, but for curRoundShares
BeaconInitButShares ==
    /\ sigHistory = << [Round |-> 0, LastRandVal |-> 0, Sig |-> GenesisSig] >>
    /\ rbRand = Derive(Seed, RBSeedTag)
    /\ bpRand = Derive(Seed, BPSeedTag)
    /\ ntRand = Derive(Seed, NtSeedTag)
    /\ nextRBCmteHistory = << Mod(Derive(Seed, RBSeedTag), NGroups) >>
    /\ nextNtCmteHistory = << Mod(Derive(Seed, NtSeedTag), NGroups) >>
    /\ nextBPCmteHistory = << Mod(Derive(Seed, BPSeedTag), NGroups) >>
    /\ mu = 0
    /\ pc = [p \in Procs |-> "idle"]
    /\ arg = [p \in Procs |-> NilSig]
    /\ entry = NoEntry
    /\ rankPc = "idle"
    /\ rankAddr = 0
    /\ rankBP = -1
    /\ ret = NoRet
    /\ crashed = FALSE

\* NewRandomBeacon
BeaconInit == BeaconInitButShares /\ curRoundShares = EmptyShares

Init == BeaconInit /\ NetInit


\* ------------------------------------------------------------------ helpers
\* curRoundShares[s.Hash()] = s
InsertShare(m, s) ==
    [h \in (DOMAIN m) \cup {ShareHash(s)} |-> IF h = ShareHash(s) THEN s ELSE m[h]]

\* recoverRandBeaconSig(shares): the group signature over the message the
\* shares sign; the same for every threshold subset of the same round.
recoverRandBeaconSig(shares) ==
    LET s == shares[CHOOSE h \in DOMAIN shares : TRUE]
    IN  (s.Round + s.LastSigHash) % NSig

\* Mutant of NewRandBeaconSig: the signature is stamped with the next round.
NewRandBeaconSigNextRound(s, shares) ==
    [Round |-> s.Round + 1, LastRandVal |-> s.LastSigHash, Sig |-> recoverRandBeaconSig(shares)]

\* var rbs RandBeaconSig; rbs.LastRandVal = s.LastSigHash; rbs.Round = s.Round;
\* rbs.Sig = sig.Serialize()
NewRandBeaconSig(s, shares) ==
    [Round |-> s.Round, LastRandVal |-> s.LastSigHash, Sig |-> recoverRandBeaconSig(shares)]

\* len(r.curRoundShares) >= r.cfg.GroupThreshold
ThresholdMet(shares) == Cardinality(DOMAIN shares) >= GroupThreshold

\* Mutant of AppendSig: the new signature overwrites the last entry.
AppendSigOverwrite(hist, s) == [hist EXCEPT ![Len(hist)] = s]

\* r.sigHistory = append(r.sigHistory, s)
AppendSig(hist, s) == Append(hist, s)

\* r.round() != s.Round, negated: the share is of the current round.
ShareRoundOK(s) == round = s.Round

\* Mutant of ShareLastSigHashOK: the binding to the last signature is not checked.
ShareLastSigHashAny(s) == TRUE

\* hash(r.sigHistory[s.Round-1].Sig) == s.LastSigHash (Go slices count from 0).
ShareLastSigHashOK(s) == hash(sigHistory[s.Round].Sig) = s.LastSigHash

\* Mutant of SigRoundOK: a signature of an earlier round is accepted too.
SigRoundUpTo(s) == s.Round <= round

\* Mutant of SigRoundOK: a signature of a later round is accepted too.
SigRoundAtLeast(s) == round <= s.Round

\* r.round() != s.Round, negated: the signature is of the current round.
SigRoundOK(s) == round = s.Round

\* Position (from 0) of addr in the member list g, -1 when absent.
MemberIndex(g, addr) ==
    IF \E i \in 1 .. Len(g) : g[i] = addr
    THEN (CHOOSE i \in 1 .. Len(g) : g[i] = addr /\ \A j \in 1 .. (i - 1) : g[j] # addr) - 1
    ELSE -1

\* Fisher-Yates: position i (from 0) is swapped with a position in i .. n-1
\* chosen by the stream, for i = 0 .. k-1.
RECURSIVE PermFrom(_, _, _, _, _)
PermFrom(a, r, i, k, n) ==
    IF i >= k THEN a
    ELSE LET j == i + Mod(r, n - i)
             b == [a EXCEPT ![i + 1] = a[j + 1], ![j + 1] = a[i + 1]]
         IN  PermFrom(b, Derive(r, i), i + 1, k, n)

\* Rand.Perm(k, n)
Perm(r, k, n) == PermFrom([i \in 1 .. n |-> i - 1], r, 0, k, n)

\* The argument of a RecvRandBeaconSigShare call, as recorded with its result.
ShareArg(s) == <<s.Round, s.Owner, s.LastSigHash>>

\* ------------------------------------------- operations under RandomBeacon.mu
\* GetShare(h)
GetShare(h) ==
    /\ ~crashed /\ mu = 0
    /\ ret' = [op |-> "GetShare", err |-> FALSE, sig |-> NilSig,
               val |-> IF h \in DOMAIN curRoundShares THEN <<h>> ELSE <<>>]
    /\ UNCHANGED <<beaconState, sigCallers, rankCaller, crashed>>
    /\ UNCHANGED netState

\* Round()
Round ==
    /\ ~crashed /\ mu = 0
    /\ ret' = [op |-> "Round", err |-> FALSE, sig |-> NilSig, val |-> <<round>>]
    /\ UNCHANGED <<beaconState, sigCallers, rankCaller, crashed>>
    /\ UNCHANGED netState

\* Committees()
Committees ==
    /\ ~crashed /\ mu = 0
    /\ ret' = [op |-> "Committees", err |-> FALSE, sig |-> NilSig,
               val |-> <<Last(nextRBCmteHistory), Last(nextBPCmteHistory),
                         Last(nextNtCmteHistory)>>]
    /\ UNCHANGED <<beaconState, sigCallers, rankCaller, crashed>>
    /\ UNCHANGED netState

\* History()
History ==
    /\ ~crashed /\ mu = 0
    /\ ret' = [op |-> "History", err |-> FALSE, sig |-> NilSig, val |-> sigHistory]
    /\ UNCHANGED <<beaconState, sigCallers, rankCaller, crashed>>
    /\ UNCHANGED netState

\* RecvRandBeaconSigShare(s, groupID); verified is the outcome of
\* sig.Verify(&r.groups[groupID].PK, msg) on the recovered signature.
RecvRandBeaconSigShare(s, groupID, verified) ==
    /\ ~crashed /\ mu = 0
    /\ IF ~ShareRoundOK(s)
       THEN /\ ret' = [op |-> "RecvRandBeaconSigShare", err |-> TRUE, sig |-> NilSig, val |-> ShareArg(s)]
            /\ UNCHANGED <<beaconState, crashed>>
       ELSE IF ~ShareLastSigHashOK(s)
       THEN /\ ret' = [op |-> "RecvRandBeaconSigShare", err |-> TRUE, sig |-> NilSig, val |-> ShareArg(s)]
            /\ UNCHANGED <<beaconState, crashed>>
       ELSE /\ curRoundShares' = InsertShare(curRoundShares, s)
            /\ UNCHANGED <<sigHistory, cmteState>>
            /\ IF ThresholdMet(curRoundShares')
               THEN IF verified
                    THEN /\ ret' = [op |-> "RecvRandBeaconSigShare", err |-> FALSE,
                                    sig |-> NewRandBeaconSig(s, curRoundShares'), val |-> ShareArg(s)]
                         /\ UNCHANGED crashed
                    ELSE /\ crashed' = TRUE
                         /\ ret' = [op |-> "panic", err |-> TRUE, sig |-> NilSig, val |-> ShareArg(s)]
               ELSE /\ ret' = [op |-> "RecvRandBeaconSigShare", err |-> FALSE, sig |-> NilSig,
                                val |-> ShareArg(s)]
                    /\ UNCHANGED crashed
    /\ UNCHANGED <<sigCallers, rankCaller>>
    /\ UNCHANGED netState

\* ------------------------------------------------------ RecvRandBeaconSig(s)
\* r.mu.Lock().  The argument s was fixed by the caller before it waited for
\* the lock and nothing reads it until the lock is taken, so it is drawn here.
RecvRandBeaconSigLock(p, s) ==
    /\ ~crashed /\ pc[p] = "idle" /\ mu = 0
    /\ round < MaxHist
    /\ mu' = p
    /\ pc' = [pc EXCEPT ![p] = "check"]
    /\ arg' = [arg EXCEPT ![p] = s]
    /\ ret' = NoRet
    /\ UNCHANGED <<beaconState, entry, rankCaller, crashed>>
    /\ UNCHANGED netState

\* if r.round() != s.Round { return error }   (the deferred Unlock runs)
RecvRandBeaconSigCheck(p) ==
    /\ ~crashed /\ pc[p] = "check"
    /\ IF ~SigRoundOK(arg[p])
       THEN /\ ret' = [op |-> "RecvRandBeaconSig", err |-> TRUE, sig |-> NilSig, val |-> <<>>]
            /\ mu' = 0
            /\ pc' = [pc EXCEPT ![p] = "idle"]
            /\ arg' = [arg EXCEPT ![p] = NilSig]
            /\ UNCHANGED entry
       ELSE /\ pc' = [pc EXCEPT ![p] = "deriveRB"]
            /\ entry' = [round |-> round, rb |-> rbRand, nt |-> ntRand, bp |-> bpRand,
                         hrb |-> nextRBCmteHistory, hnt |-> nextNtCmteHistory,
                         hbp |-> nextBPCmteHistory]
            /\ ret' = NoRet
            /\ UNCHANGED <<mu, arg>>
    /\ UNCHANGED <<beaconState, rankCaller, crashed>>
    /\ UNCHANGED netState

\* Mutant of deriveRandRB: the committee is taken from the stream before it is derived.
deriveRandRBStale(p) ==
    /\ ~crashed /\ pc[p] = "deriveRB"
    /\ rbRand' = Derive(rbRand, hash(arg[p].Sig))
    /\ nextRBCmteHistory' = Append(nextRBCmteHistory, Mod(rbRand, NGroups))
    /\ pc' = [pc EXCEPT ![p] = "deriveNt"]
    /\ UNCHANGED <<sigHistory, curRoundShares, ntRand, bpRand, nextNtCmteHistory,
                   nextBPCmteHistory, mu, arg, entry, rankCaller, crashed>>
    /\ ret' = NoRet
    /\ UNCHANGED netState

\* deriveRand: r.rbRand = r.rbRand.Derive(h[:]); append to nextRBCmteHistory
deriveRandRB(p) ==
    /\ ~crashed /\ pc[p] = "deriveRB"
    /\ rbRand' = Derive(rbRand, hash(arg[p].Sig))
    /\ nextRBCmteHistory' = Append(nextRBCmteHistory, Mod(rbRand', NGroups))
    /\ pc' = [pc EXCEPT ![p] = "deriveNt"]
    /\ UNCHANGED <<sigHistory, curRoundShares, ntRand, bpRand, nextNtCmteHistory,
                   nextBPCmteHistory, mu, arg, entry, rankCaller, crashed>>
    /\ ret' = NoRet
    /\ UNCHANGED netState

\* Mutant of deriveRandNt: the stream is derived, the committee is not recorded.
deriveRandNtNoAppend(p) ==
    /\ ~crashed /\ pc[p] = "deriveNt"
    /\ ntRand' = Derive(ntRand, hash(arg[p].Sig))
    /\ pc' = [pc EXCEPT ![p] = "deriveBP"]
    /\ UNCHANGED <<sigHistory, curRoundShares, rbRand, bpRand, nextRBCmteHistory,
                   nextNtCmteHistory, nextBPCmteHistory, mu, arg, entry, rankCaller, crashed>>
    /\ ret' = NoRet
    /\ UNCHANGED netState

\* deriveRand: r.ntRand = r.ntRand.Derive(h[:]); append to nextNtCmteHistory
deriveRandNt(p) ==
    /\ ~crashed /\ pc[p] = "deriveNt"
    /\ ntRand' = Derive(ntRand, hash(arg[p].Sig))
    /\ nextNtCmteHistory' = Append(nextNtCmteHistory, Mod(ntRand', NGroups))
    /\ pc' = [pc EXCEPT ![p] = "deriveBP"]
    /\ UNCHANGED <<sigHistory, curRoundShares, rbRand, bpRand, nextRBCmteHistory,
                   nextBPCmteHistory, mu, arg, entry, rankCaller, crashed>>
    /\ ret' = NoRet
    /\ UNCHANGED netState

\* Mutant of deriveRandBP: the number of shares held is mixed into the stream.
deriveRandBPWithShares(p) ==
    /\ ~crashed /\ pc[p] = "deriveBP"
    /\ bpRand' = Derive(bpRand, hash(arg[p].Sig) + Cardinality(DOMAIN curRoundShares))
    /\ pc' = [pc EXCEPT ![p] = "appendBP"]
    /\ UNCHANGED <<sigHistory, curRoundShares, rbRand, ntRand, nextRBCmteHistory,
                   nextNtCmteHistory, nextBPCmteHistory, mu, arg, entry, rankCaller, crashed>>
    /\ ret' = NoRet
    /\ UNCHANGED netState

\* deriveRand: r.bpRand = r.bpRand.Derive(h[:])
deriveRandBP(p) ==
    /\ ~crashed /\ pc[p] = "deriveBP"
    /\ bpRand' = Derive(bpRand, hash(arg[p].Sig))
    /\ pc' = [pc EXCEPT ![p] = "appendBP"]
    /\ UNCHANGED <<sigHistory, curRoundShares, rbRand, ntRand, nextRBCmteHistory,
                   nextNtCmteHistory, nextBPCmteHistory, mu, arg, entry, rankCaller, crashed>>
    /\ ret' = NoRet
    /\ UNCHANGED netState

\* deriveRand: r.nextBPCmteHistory = append(r.nextBPCmteHistory, r.bpRand.Mod(len(r.groups)))
deriveRandBPAppend(p) ==
    /\ ~crashed /\ pc[p] = "appendBP"
    /\ nextBPCmteHistory' = Append(nextBPCmteHistory, Mod(bpRand, NGroups))
    /\ pc' = [pc EXCEPT ![p] = "clear"]
    /\ UNCHANGED <<sigHistory, curRoundShares, rbRand, ntRand, bpRand, nextRBCmteHistory,
                   nextNtCmteHistory, mu, arg, entry, rankCaller, crashed>>
    /\ ret' = NoRet
    /\ UNCHANGED netState

\* Mutant of RecvRandBeaconSigClear: the shares of the finished round are kept.
RecvRandBeaconSigKeepShares(p) ==
    /\ ~crashed /\ pc[p] = "clear"
    /\ pc' = [pc EXCEPT ![p] = "append"]
    /\ UNCHANGED <<sigHistory, curRoundShares, cmteState, mu, arg, entry, rankCaller, crashed>>
    /\ ret' = NoRet
    /\ UNCHANGED netState

\* r.curRoundShares = make(map[Hash]*RandBeaconSigShare)
RecvRandBeaconSigClear(p) ==
    /\ ~crashed /\ pc[p] = "clear"
    /\ curRoundShares' = EmptyShares
    /\ pc' = [pc EXCEPT ![p] = "append"]
    /\ UNCHANGED <<sigHistory, cmteState, mu, arg, entry, rankCaller, crashed>>
    /\ ret' = NoRet
    /\ UNCHANGED netState

\* r.sigHistory = append(r.sigHistory, s); return nil   (the deferred Unlock runs)
RecvRandBeaconSigAppend(p) ==
    /\ ~crashed /\ pc[p] = "append"
    /\ sigHistory' = AppendSig(sigHistory, arg[p])
    /\ ret' = [op |-> "RecvRandBeaconSig", err |-> FALSE, sig |-> NilSig, val |-> <<>>]
    /\ mu' = 0
    /\ pc' = [pc EXCEPT ![p] = "idle"]
    /\ arg' = [arg EXCEPT ![p] = NilSig]
    /\ entry' = NoEntry
    /\ UNCHANGED <<curRoundShares, cmteState, rankCaller, crashed>>
    /\ UNCHANGED netState

\* ------------------------------------------------------------- Rank(addr)
\* bp := r.nextBPCmteHistory[len(r.nextBPCmteHistory)-1]   (r.mu is not taken)
RankReadCmte(addr) ==
    /\ ~crashed /\ rankPc = "idle"
    /\ rankPc' = "perm"
    /\ rankAddr' = addr
    /\ rankBP' = Last(nextBPCmteHistory)
    /\ ret' = NoRet
    /\ UNCHANGED <<beaconState, sigCallers, crashed>>
    /\ UNCHANGED netState

\* Mutant of RankOf: the permutation is asked for idx positions, one too few.
RankOfShortPerm(r, g, idx) == Perm(r, idx, Len(g))[idx + 1]

\* The rank of the member at position idx of g under the stream state r.
RankOf(r, g, idx) == Perm(r, idx + 1, Len(g))[idx + 1]

\* The member search, then perm := r.bpRand.Perm(idx+1, len(g.Members)) and
\* return perm[idx].  val is <<rank, committee read, stream state read>>.
RankPerm ==
    /\ ~crashed /\ rankPc = "perm"
    /\ LET g == Groups[rankBP + 1]
           idx == MemberIndex(g, rankAddr)
       IN  ret' = IF idx < 0
                  THEN [op |-> "Rank", err |-> TRUE, sig |-> NilSig, val |-> <<0, rankBP, -1>>]
                  ELSE [op |-> "Rank", err |-> FALSE, sig |-> NilSig,
                        val |-> <<RankOf(bpRand, g, idx), rankBP, bpRand>>]
    /\ rankPc' = "idle"
    /\ rankAddr' = 0
    /\ rankBP' = -1
    /\ UNCHANGED <<beaconState, sigCallers, crashed>>
    /\ UNCHANGED netState

Next ==
    \/ \E h \in {ShareHash(s) : s \in ShareInputs} : GetShare(h)
    \/ Round
    \/ Committees
    \/ History
    \/ \E s \in ShareInputs, g \in 0 .. (NGroups - 1), v \in BOOLEAN :
           RecvRandBeaconSigShare(s, g, v)
    \/ \E p \in Procs, s \in SigInputs : RecvRandBeaconSigLock(p, s)
    \/ \E p \in Procs : RecvRandBeaconSigCheck(p)
    \/ \E p \in Procs : deriveRandRB(p)
    \/ \E p \in Procs : deriveRandNt(p)
    \/ \E p \in Procs : deriveRandBP(p)
    \/ \E p \in Procs : deriveRandBPAppend(p)
    \/ \E p \in Procs : RecvRandBeaconSigClear(p)
    \/ \E p \in Procs : RecvRandBeaconSigAppend(p)
    \/ \E a \in Addrs : RankReadCmte(a)
    \/ RankPerm

Spec == Init /\ [][Next]_vars


\* ---------------------------------------------------------- recvInventory
\* ItemType
TxnItem == "TxnItem"
SysTxnItem == "SysTxnItem"
BlockItem == "BlockItem"
BlockProposalItem == "BlockProposalItem"
NtShareItem == "NtShareItem"
RandBeaconShareItem == "RandBeaconShareItem"
RandBeaconItem == "RandBeaconItem"

\* Announced items carry a round in 1 .. MaxItemRound; an inventory lists at
\* most MaxIds of them.
MaxItemRound == 2
MaxIds == 2

\* A share of the first round that the beacon may hold.
FirstShare == [Round |-> 1, Owner |-> 1, LastSigHash |-> hash(GenesisSig)]

\* Hashes announced: one the chain may hold under any kind, and FirstShare's.
ChainHashes == {1}
ItemHashes == ChainHashes \cup {ShareHash(FirstShare)}

\* Parent references announced: one the chain may need notarized, one it never does.
NeedRefs == {1}
ItemRefs == NeedRefs \cup {2}

\* The addresses of remote nodes; those of Senders announce.
Senders == {1}
NetAddrs == Senders \cup {2}

\* ItemID values announced (round, Ref and Hash of a TxnItem or SysTxnItem are
\* never read; Ref is read for an NtShareItem only).
InvItems ==
    [T : {TxnItem, SysTxnItem}, ItemRound : {1}, Ref : NeedRefs, Hash : ChainHashes]
    \cup [T : {BlockItem, BlockProposalItem, RandBeaconShareItem, RandBeaconItem},
          ItemRound : 1 .. MaxItemRound, Ref : NeedRefs, Hash : ItemHashes]
    \cup [T : {NtShareItem}, ItemRound : 1 .. MaxItemRound, Ref : ItemRefs, Hash : ItemHashes]

InvLists == UNION {[1 .. n -> InvItems] : n \in 0 .. MaxIds}
InvMsgs == [sender : Senders, ids : InvLists]

\* A call on the network: n.net.Connect(to), or p.GetData(n.addr, ids) on the
\* peer of address to; locked tells whether n.mu was held when it was made.
ConnectCall(to) == [call |-> "Connect", to |-> to, ids |-> <<>>, locked |-> TRUE]
GetDataCall(to, id) == [call |-> "GetData", to |-> to, ids |-> <<id>>, locked |-> TRUE]

\* One iteration of the loop of recvInventory, the switch on id.T:
\* "panic", "get" (p.GetData is called) or "skip".
InventoryItem(id, rnd) ==
    CASE id.T = TxnItem -> "panic"
      [] id.T = SysTxnItem -> "panic"
      [] id.T = BlockItem ->
            IF id.Hash \notin chainBlocks THEN "get" ELSE "skip"
      [] id.T = BlockProposalItem ->
            IF id.ItemRound # rnd THEN "skip"
            ELSE IF id.Hash \in chainBPs THEN "skip"
            ELSE "get"
      [] id.T = NtShareItem ->
            IF id.ItemRound # rnd THEN "skip"
            ELSE IF id.Hash \in chainNtShares THEN "skip"
            ELSE IF id.Ref \notin chainNeedNotarize THEN "skip"
            ELSE "get"
      [] id.T = RandBeaconShareItem ->
            IF id.ItemRound # rnd THEN "skip"
            ELSE IF id.Hash \in DOMAIN curRoundShares THEN "skip"
            ELSE "get"
      [] id.T = RandBeaconItem ->
            IF id.ItemRound # rnd THEN "skip"
            ELSE "get"

\* for _, id := range ids { switch id.T ... }: the calls made from the i-th
\* id on, after calls, and whether the loop ended in a panic.
RECURSIVE InventoryLoop(_, _, _, _, _)
InventoryLoop(to, ids, i, rnd, calls) ==
    IF i > Len(ids) THEN [calls |-> calls, panicked |-> FALSE]
    ELSE LET r == InventoryItem(ids[i], rnd) IN
         IF r = "panic" THEN [calls |-> calls, panicked |-> TRUE]
         ELSE InventoryLoop(to, ids, i + 1, rnd,
                            IF r = "get" THEN Append(calls, GetDataCall(to, ids[i]))
                            ELSE calls)

\* An access to a field of Networking; locked tells whether n.mu was held.
PeerAccess(field, op, locked) == [field |-> field, op |-> op, locked |-> locked]

\* The accesses of findOrConnect(addr): the lookup n.peers[addr] and, when it
\* misses and Connect succeeds, the store n.peers[addr] = p.
findOrConnectAccesses(known, connected, locked) ==
    <<PeerAccess("peers", "read", locked)>>
    \o (IF ~known /\ connected THEN <<PeerAccess("peers", "write", locked)>> ELSE <<>>)

\* recvInventory(sender, ids) on the Inventory message at the head of inbox;
\* connected is the outcome of n.net.Connect(sender) in findOrConnect, made
\* when sender has no Peer yet.  GetShare waits for RandomBeacon.mu.
recvInventory(connected) ==
    /\ ~crashed /\ inbox # <<>> /\ mu = 0
    /\ LET m == Head(inbox)
           known == m.sender \in peers
           dial == IF known THEN <<>> ELSE <<ConnectCall(m.sender)>>
           r == InventoryLoop(m.sender, m.ids, 1, chainRound, <<>>)
       IN  /\ inbox' = Tail(inbox)
           /\ IF ~known /\ ~connected
              THEN /\ peers' = peers
                   /\ netOut' = dial
                   /\ invDone' = [sender |-> m.sender, ids |-> m.ids, outcome |-> "nopeer"]
                   /\ UNCHANGED crashed
              ELSE /\ peers' = peers \cup {m.sender}
                   /\ netOut' = dial \o r.calls
                   /\ invDone' = [sender |-> m.sender, ids |-> m.ids,
                                  outcome |-> IF r.panicked THEN "panic" ELSE "done"]
                   /\ crashed' = r.panicked
           /\ peerAcc' = findOrConnectAccesses(known, connected, TRUE)
    /\ ret' = NoRet
    /\ UNCHANGED <<beaconState, sigCallers, rankCaller, chainState, srvDone,
                   taskState, validatorState, nmu, startCall>>

\* A node with one Inventory message in flight: the beacon at its first round,
\* holding FirstShare or nothing; the chain at any round, holding the hash of
\* ChainHashes under any of its kinds and needing the Ref of NeedRefs notarized
\* or not; the sender with a Peer already or not.
InvInit ==
    /\ BeaconInitButShares
    /\ curRoundShares \in {EmptyShares, InsertShare(EmptyShares, FirstShare)}
    /\ peers \in SUBSET NetAddrs
    /\ chainRound \in 1 .. MaxItemRound
    /\ chainBlocks \in SUBSET ChainHashes
    /\ chainBPs \in SUBSET ChainHashes
    /\ chainNtShares \in SUBSET ChainHashes
    /\ chainNeedNotarize \in SUBSET NeedRefs
    /\ chainFinalized = <<>>
    /\ inbox \in {<<m>> : m \in InvMsgs}
    /\ invDone = NoInv
    /\ netOut = <<>>
    /\ srvDone = NoReq
    /\ peerAcc = <<>>
    /\ TaskIdle

InvNext == \E connected \in BOOLEAN : recvInventory(connected)

SpecInv == InvInit /\ [][InvNext]_vars

\* ------------------------------------------------ the beacon as a function
\* The fields NewRandomBeacon gives the beacon.
NewRandomBeacon ==
    [hist |-> << [Round |-> 0, LastRandVal |-> 0, Sig |-> GenesisSig] >>,
     rb |-> Derive(Seed, RBSeedTag),
     bp |-> Derive(Seed, BPSeedTag),
     nt |-> Derive(Seed, NtSeedTag),
     hrb |-> << Mod(Derive(Seed, RBSeedTag), NGroups) >>,
     hnt |-> << Mod(Derive(Seed, NtSeedTag), NGroups) >>,
     hbp |-> << Mod(Derive(Seed, BPSeedTag), NGroups) >>]

\* The fields after RecvRandBeaconSig(s) ran to its end on the beacon b:
\* deriveRand(hash(s.Sig)), then the append of s to sigHistory.
AcceptSig(b, s) ==
    LET h == hash(s.Sig)
        rb == Derive(b.rb, h)
        nt == Derive(b.nt, h)
        bp == Derive(b.bp, h)
    IN  [hist |-> Append(b.hist, s),
         rb |-> rb, bp |-> bp, nt |-> nt,
         hrb |-> Append(b.hrb, Mod(rb, NGroups)),
         hnt |-> Append(b.hnt, Mod(nt, NGroups)),
         hbp |-> Append(b.hbp, Mod(bp, NGroups))]

\* The beacon that was created by NewRandomBeacon and then accepted
\* hist[2], ..., hist[n] in this order.
RECURSIVE BeaconOf(_, _)
BeaconOf(hist, n) ==
    IF n <= 1 THEN NewRandomBeacon ELSE AcceptSig(BeaconOf(hist, n - 1), hist[n])

\* The beacon is b, at rest: no call is in progress.
BeaconAtRest(b) ==
    /\ sigHistory = b.hist
    /\ rbRand = b.rb /\ ntRand = b.nt /\ bpRand = b.bp
    /\ nextRBCmteHistory = b.hrb
    /\ nextNtCmteHistory = b.hnt
    /\ nextBPCmteHistory = b.hbp
    /\ mu = 0
    /\ pc = [p \in Procs |-> "idle"]
    /\ arg = [p \in Procs |-> NilSig]
    /\ entry = NoEntry
    /\ rankPc = "idle"
    /\ rankAddr = 0
    /\ rankBP = -1
    /\ ret = NoRet
    /\ crashed = FALSE

\* The signature histories of n entries a beacon can hold: the 0th signature,
\* then one accepted signature per round.
Histories(n) ==
    {h \in [1 .. n -> [Round : 0 .. (n - 1), LastRandVal : {0, hash(GenesisSig)}, Sig : Sigs \cup {GenesisSig}]] :
        /\ h[1] = NewRandomBeacon.hist[1]
        /\ \A i \in 2 .. n : h[i].Round = i - 1 /\ h[i].LastRandVal = hash(GenesisSig)}

\* A share of owner 1 that the beacon holding hist accepts.
CurShare(hist) ==
    [Round |-> Len(hist), Owner |-> 1, LastSigHash |-> hash(hist[Len(hist)].Sig)]

\* ---------------------------------------------------------------- serveData
\* The beacon of a serving node holds at most MaxServeHist signatures.
MaxServeHist == 2

\* ItemID values requested of a node whose beacon holds hist (the round of an
\* item is read for a RandBeaconItem only, Ref never; a requested round may be
\* negative, ItemRound is an int).
ReqItems(hist) ==
    [T : {TxnItem, SysTxnItem, BlockItem, BlockProposalItem, NtShareItem},
     ItemRound : {1}, Ref : NeedRefs, Hash : ChainHashes]
    \cup [T : {RandBeaconShareItem}, ItemRound : {Len(hist)}, Ref : NeedRefs,
          Hash : {ShareHash(FirstShare), ShareHash(CurShare(hist))}]
    \cup [T : {RandBeaconItem}, ItemRound : (-1) .. MaxItemRound, Ref : NeedRefs,
          Hash : ChainHashes]

ReqLists(hist) == UNION {[1 .. n -> ReqItems(hist)] : n \in 0 .. MaxIds}
ReqMsgs(hist) == [requester : Senders, ids : ReqLists(hist)]

\* n.net.Connect(to) made by serveData, which does not take n.mu.
ServeConnectCall(to) == [call |-> "Connect", to |-> to, ids |-> <<>>, locked |-> FALSE]

\* A call of the Peer method call on the peer of address to, made by serveData
\* in answer to id and carrying data.
SendCall(call, to, id, data) ==
    [call |-> call, to |-> to, ids |-> <<id>>, locked |-> FALSE, data |-> data]

\* Mutant of ServeItem: a block is sent whatever the lookup says.
ServeItemNoLookup(id) ==
    CASE id.T = TxnItem -> "panic"
      [] id.T = SysTxnItem -> "panic"
      [] id.T = BlockItem -> "send"
      [] id.T = BlockProposalItem ->
            IF id.Hash \notin chainBPs THEN "skip" ELSE "send"
      [] id.T = NtShareItem ->
            IF id.Hash \notin chainNtShares THEN "skip" ELSE "send"
      [] id.T = RandBeaconShareItem ->
            IF id.Hash \notin DOMAIN curRoundShares THEN "skip" ELSE "send"
      [] id.T = RandBeaconItem ->
            IF id.ItemRound >= Len(sigHistory) THEN "skip"
            ELSE IF id.ItemRound < 0 THEN "panic"
            ELSE "send"

\* One iteration of the loop of serveData, the switch on id.T: "panic", "send"
\* (a Peer method is called) or "skip" (continue).  history[id.ItemRound]
\* with a negative index is a run-time panic.
ServeItem(id) ==
    CASE id.T = TxnItem -> "panic"
      [] id.T = SysTxnItem -> "panic"
      [] id.T = BlockItem ->
            IF id.Hash \notin chainBlocks THEN "skip" ELSE "send"
      [] id.T = BlockProposalItem ->
            IF id.Hash \notin chainBPs THEN "skip" ELSE "send"
      [] id.T = NtShareItem ->
            IF id.Hash \notin chainNtShares THEN "skip" ELSE "send"
      [] id.T = RandBeaconShareItem ->
            IF id.Hash \notin DOMAIN curRoundShares THEN "skip" ELSE "send"
      [] id.T = RandBeaconItem ->
            IF id.ItemRound >= Len(sigHistory) THEN "skip"
            ELSE IF id.ItemRound < 0 THEN "panic"
            ELSE "send"

\* The Peer call serveData makes for an id it sends: the method, and the item
\* the lookup returned (a block, proposal or notarization share is named by
\* its hash).
ServeSend(to, id) ==
    CASE id.T = BlockItem -> SendCall("Block", to, id, id.Hash)
      [] id.T = BlockProposalItem -> SendCall("BlockProposal", to, id, id.Hash)
      [] id.T = NtShareItem -> SendCall("NotarizationShare", to, id, id.Hash)
      [] id.T = RandBeaconShareItem ->
            SendCall("RandBeaconSigShare", to, id, curRoundShares[id.Hash])
      [] id.T = RandBeaconItem ->
            SendCall("RandBeaconSig", to, id, sigHistory[id.ItemRound + 1])

\* for _, id := range ids { switch id.T ... }: the calls made from the i-th
\* id on, after calls, and whether the loop ended in a panic.
RECURSIVE ServeLoop(_, _, _, _)
ServeLoop(to, ids, i, calls) ==
    IF i > Len(ids) THEN [calls |-> calls, panicked |-> FALSE]
    ELSE LET r == ServeItem(ids[i]) IN
         IF r = "panic" THEN [calls |-> calls, panicked |-> TRUE]
         ELSE ServeLoop(to, ids, i + 1,
                        IF r = "send" THEN Append(calls, ServeSend(to, ids[i]))
                        ELSE calls)

\* serveData(requester, ids) on the GetData request at the head of inbox;
\* connected is the outcome of n.net.Connect(requester) in findOrConnect, made
\* when requester has no Peer yet.  n.mu is never taken; GetShare and History
\* wait for RandomBeacon.mu.
serveData(connected) ==
    /\ ~crashed /\ inbox # <<>> /\ mu = 0
    /\ LET m == Head(inbox)
           known == m.requester \in peers
           dial == IF known THEN <<>> ELSE <<ServeConnectCall(m.requester)>>
           r == ServeLoop(m.requester, m.ids, 1, <<>>)
       IN  /\ inbox' = Tail(inbox)
           /\ peerAcc' = findOrConnectAccesses(known, connected, FALSE)
           /\ IF ~known /\ ~connected
              THEN /\ peers' = peers
                   /\ netOut' = dial
                   /\ srvDone' = [requester |-> m.requester, ids |-> m.ids, outcome |-> "nopeer"]
                   /\ UNCHANGED crashed
              ELSE /\ peers' = peers \cup {m.requester}
                   /\ netOut' = dial \o r.calls
                   /\ srvDone' = [requester |-> m.requester, ids |-> m.ids,
                                  outcome |-> IF r.panicked THEN "panic" ELSE "done"]
                   /\ crashed' = r.panicked
    /\ ret' = NoRet
    /\ UNCHANGED <<beaconState, sigCallers, rankCaller, chainState, invDone,
                   taskState, validatorState, nmu, startCall>>

\* A node with one GetData request in flight: the beacon at rest after any
\* history of at most MaxServeHist signatures, holding a share of its round or
\* nothing; the chain holding the hash of ChainHashes under any of its kinds;
\* the requester with a Peer already or not.
ServeInit ==
    /\ \E n \in 1 .. MaxServeHist : \E hist \in Histories(n) :
          /\ BeaconAtRest(BeaconOf(hist, n))
          /\ curRoundShares \in {EmptyShares, InsertShare(EmptyShares, CurShare(hist))}
          /\ inbox \in {<<m>> : m \in ReqMsgs(hist)}
    /\ peers \in SUBSET Senders
    /\ chainRound = 1
    /\ chainBlocks \in SUBSET ChainHashes
    /\ chainBPs \in SUBSET ChainHashes
    /\ chainNtShares \in SUBSET ChainHashes
    /\ chainNeedNotarize = {}
    /\ chainFinalized = <<>>
    /\ invDone = NoInv
    /\ netOut = <<>>
    /\ srvDone = NoReq
    /\ peerAcc = <<>>
    /\ TaskIdle

ServeNext == \E connected \in BOOLEAN : serveData(connected)

SpecServe == ServeInit /\ [][ServeNext]_vars

\* -------------------------------------------------------------- getSyncData
\* The finalized chain holds at most MaxBlocks blocks, each named by its hash.
MaxBlocks == 3
BlockHashes == {1, 2}
BlockSeqs == UNION {[1 .. n -> BlockHashes] : n \in 0 .. MaxBlocks}

\* s[k:] for 0 <= k <= len(s)
SliceFrom(s, k) == SubSeq(s, k + 1, Len(s))

\* getSyncData(start) on a node whose beacon history is history and whose
\* finalized chain is blocks: the pair returned (nil is the empty sequence).
getSyncData(history, blocks, start) ==
    IF Len(history) <= start
    THEN [rb |-> <<>>, bs |-> <<>>]
    ELSE [rb |-> SliceFrom(history, start),
          bs |-> IF Len(blocks) <= start THEN <<>> ELSE SliceFrom(blocks, start)]

\* receiver.Sync(start): getSyncData(start) under n.mu; History() waits for
\* RandomBeacon.mu.  val is <<start, signatures returned, blocks returned>>.
Sync(start) ==
    /\ ~crashed /\ mu = 0
    /\ LET r == getSyncData(sigHistory, chainFinalized, start)
       IN  ret' = [op |-> "Sync", err |-> FALSE, sig |-> NilSig, val |-> <<start, r.rb, r.bs>>]
    /\ UNCHANGED <<beaconState, sigCallers, rankCaller, crashed>>
    /\ UNCHANGED netState

\* No message is in flight and no handler has run.
NetIdle ==
    /\ inbox = <<>>
    /\ invDone = NoInv
    /\ netOut = <<>>
    /\ srvDone = NoReq
    /\ peerAcc = <<>>

\* A node that serves Sync: the beacon at rest after any history of at most
\* MaxServeHist signatures, the chain with any finalized blocks.
SyncInit ==
    /\ \E n \in 1 .. MaxServeHist : \E hist \in Histories(n) :
          BeaconAtRest(BeaconOf(hist, n))
    /\ curRoundShares = EmptyShares
    /\ peers = {}
    /\ chainRound = 1
    /\ chainBlocks = {}
    /\ chainBPs = {}
    /\ chainNtShares = {}
    /\ chainNeedNotarize = {}
    /\ chainFinalized \in BlockSeqs
    /\ NetIdle
    /\ TaskIdle

SyncNext == \E start \in 0 .. MaxBlocks : Sync(start)

SpecSync == SyncInit /\ [][SyncNext]_vars

\* ------------------------------------------ receive handlers and broadcast
\* Inbound artifacts are handled while fewer than MaxTasks goroutines are pending.
MaxTasks == 2

\* The owners whose shares are genuine: a signature recovered from their
\* shares alone verifies under the group key, one recovered from a set that
\* holds another owner's share does not.
GenuineOwners == {1, 2}

\* RandBeaconSig.Hash(): digest of the encoded signature, injective.
SigHash(r) == 1000 + r.Round * 10 + r.Sig

\* ItemID{T: RandBeaconShareItem, Hash: r.Hash(), ItemRound: r.Round}
ShareItemID(s) ==
    [T |-> RandBeaconShareItem, ItemRound |-> s.Round, Ref |-> 0, Hash |-> ShareHash(s)]

\* ItemID{T: RandBeaconItem, Hash: r.Hash(), ItemRound: r.Round}
SigItemID(r) ==
    [T |-> RandBeaconItem, ItemRound |-> r.Round, Ref |-> 0, Hash |-> SigHash(r)]

\* The goroutines: go n.recvRandBeaconSig(sig), go n.BroadcastItem(item) and,
\* inside BroadcastItem, go func() { p.Inventory(n.addr, []ItemID{item}) }().
RecvSigTask(r) == [fn |-> "recvRandBeaconSig", sig |-> r, item |-> <<>>, to |-> 0]
BroadcastTask(item) == [fn |-> "BroadcastItem", sig |-> NilSig, item |-> item, to |-> 0]
InventoryTask(q, item) == [fn |-> "Inventory", sig |-> NilSig, item |-> item, to |-> q]

\* The bag of the goroutines listed in ts.
RECURSIVE BagOfSeq(_)
BagOfSeq(ts) == IF ts = <<>> THEN EmptyBag ELSE SetToBag({Head(ts)}) (+) BagOfSeq(Tail(ts))

\* p.Inventory(n.addr, []ItemID{item}) on the peer of address q; n.mu is not held.
InventoryCall(q, item) == [call |-> "Inventory", to |-> q, ids |-> <<item>>, locked |-> FALSE]

\* sig.Verify(&r.groups[groupID].PK, msg) on the signature recovered from shares.
Verifies(shares) == \A h \in DOMAIN shares : shares[h].Owner \in GenuineOwners

\* RandomBeacon.RecvRandBeaconSigShare(s, groupID) on the beacon as it is: what
\* it returns ("err", "nil", "sig", or "panic" when it aborts), the shares it
\* leaves and the signature it built.
ShareCall(s) ==
    IF ~ShareRoundOK(s)
    THEN [res |-> "err", shares |-> curRoundShares, sig |-> NilSig]
    ELSE IF ~ShareLastSigHashOK(s)
    THEN [res |-> "err", shares |-> curRoundShares, sig |-> NilSig]
    ELSE LET sh == InsertShare(curRoundShares, s) IN
         IF ~ThresholdMet(sh) THEN [res |-> "nil", shares |-> sh, sig |-> NilSig]
         ELSE IF Verifies(sh) THEN [res |-> "sig", shares |-> sh, sig |-> NewRandBeaconSig(s, sh)]
         ELSE [res |-> "panic", shares |-> sh, sig |-> NilSig]

\* Mutant of recvRandBeaconSigShare: the return after `go n.recvRandBeaconSig(sig)`
\* is missing, so the share inventory is broadcast as well.
recvRandBeaconSigShareNoReturn(s) ==
    /\ ~crashed /\ mu = 0
    /\ round < MaxHist
    /\ BagCardinality(tasks) < MaxTasks
    /\ IF s.Owner \notin vOwners
       THEN /\ ret' = [op |-> "recvRandBeaconSigShare", err |-> TRUE, sig |-> NilSig,
                       val |-> <<>>]
            /\ spawned' = <<>>
            /\ UNCHANGED <<curRoundShares, tasks, crashed>>
       ELSE LET c == ShareCall(s) IN
            /\ curRoundShares' = c.shares
            /\ crashed' = (c.res = "panic")
            /\ ret' = [op |-> IF c.res = "panic" THEN "panic" ELSE "recvRandBeaconSigShare",
                       err |-> c.res \in {"err", "panic"}, sig |-> c.sig,
                       val |-> IF c.res = "err" THEN <<>> ELSE ShareArg(s)]
            /\ spawned' = CASE c.res = "sig" -> <<RecvSigTask(c.sig), BroadcastTask(ShareItemID(s))>>
                            [] c.res = "nil" -> <<BroadcastTask(ShareItemID(s))>>
                            [] OTHER -> <<>>
            /\ tasks' = tasks (+) BagOfSeq(spawned')
    /\ netOut' = <<>>
    /\ peerAcc' = <<>>
    /\ UNCHANGED <<sigHistory, cmteState, sigCallers, rankCaller>>
    /\ UNCHANGED <<peers, chainState, inbox, invDone, srvDone, validatorState, nmu, startCall>>

\* recvRandBeaconSigShare(r): the validator, then RecvRandBeaconSigShare, which
\* holds RandomBeacon.mu for its whole body, then one `go` or none.
recvRandBeaconSigShare(s) ==
    /\ ~crashed /\ mu = 0
    /\ round < MaxHist
    /\ BagCardinality(tasks) < MaxTasks
    /\ IF s.Owner \notin vOwners
       THEN /\ ret' = [op |-> "recvRandBeaconSigShare", err |-> TRUE, sig |-> NilSig,
                       val |-> <<>>]
            /\ spawned' = <<>>
            /\ UNCHANGED <<curRoundShares, tasks, crashed>>
       ELSE LET c == ShareCall(s) IN
            /\ curRoundShares' = c.shares
            /\ crashed' = (c.res = "panic")
            /\ ret' = [op |-> IF c.res = "panic" THEN "panic" ELSE "recvRandBeaconSigShare",
                       err |-> c.res \in {"err", "panic"}, sig |-> c.sig,
                       val |-> IF c.res = "err" THEN <<>> ELSE ShareArg(s)]
            /\ spawned' = CASE c.res = "sig" -> <<RecvSigTask(c.sig)>>
                            [] c.res = "nil" -> <<BroadcastTask(ShareItemID(s))>>
                            [] OTHER -> <<>>
            /\ tasks' = tasks (+) BagOfSeq(spawned')
    /\ netOut' = <<>>
    /\ peerAcc' = <<>>
    /\ UNCHANGED <<sigHistory, cmteState, sigCallers, rankCaller>>
    /\ UNCHANGED <<peers, chainState, inbox, invDone, srvDone, validatorState, nmu, startCall>>

\* recvRandBeaconSig(r), with pending the goroutines left to run: the
\* validator, then RecvRandBeaconSig, which holds RandomBeacon.mu for its
\* whole body, then `go n.BroadcastItem` when it returned no error.
recvRandBeaconSig(r, pending) ==
    /\ ~crashed /\ mu = 0
    /\ round < MaxHist
    /\ IF r.Sig \notin vSigs
       THEN /\ ret' = [op |-> "recvRandBeaconSig", err |-> TRUE, sig |-> r, val |-> <<"invalid">>]
            /\ spawned' = <<>>
            /\ UNCHANGED beaconState
       ELSE IF ~SigRoundOK(r)
       THEN /\ ret' = [op |-> "recvRandBeaconSig", err |-> TRUE, sig |-> r, val |-> <<"round">>]
            /\ spawned' = <<>>
            /\ UNCHANGED beaconState
       ELSE LET b == AcceptSig([hist |-> sigHistory, rb |-> rbRand, nt |-> ntRand,
                                bp |-> bpRand, hrb |-> nextRBCmteHistory,
                                hnt |-> nextNtCmteHistory, hbp |-> nextBPCmteHistory], r)
            IN  /\ rbRand' = b.rb /\ ntRand' = b.nt /\ bpRand' = b.bp
                /\ nextRBCmteHistory' = b.hrb
                /\ nextNtCmteHistory' = b.hnt
                /\ nextBPCmteHistory' = b.hbp
                /\ curRoundShares' = EmptyShares
                /\ sigHistory' = b.hist
                /\ ret' = [op |-> "recvRandBeaconSig", err |-> FALSE, sig |-> r, val |-> <<>>]
                /\ spawned' = <<BroadcastTask(SigItemID(r))>>
    /\ tasks' = pending (+) BagOfSeq(spawned')
    /\ netOut' = <<>>
    /\ peerAcc' = <<>>
    /\ UNCHANGED <<sigCallers, rankCaller, crashed>>
    /\ UNCHANGED <<peers, chainState, inbox, invDone, srvDone, validatorState, nmu, startCall>>

\* receiver.RandBeaconSigShare(s)
RandBeaconSigShare(s) == recvRandBeaconSigShare(s)

\* receiver.RandBeaconSig(s)
RandBeaconSig(r) ==
    /\ BagCardinality(tasks) < MaxTasks
    /\ recvRandBeaconSig(r, tasks)

\* The goroutine started by `go n.recvRandBeaconSig(sig)` runs.
RunRecvRandBeaconSig(r) ==
    /\ BagIn(RecvSigTask(r), tasks)
    /\ recvRandBeaconSig(r, tasks (-) SetToBag({RecvSigTask(r)}))

\* The goroutine started by `go n.BroadcastItem(item)` runs: it waits for n.mu
\* and under it starts one goroutine per peer of n.peers.
BroadcastItem(item) ==
    /\ ~crashed
    /\ nmu = 0
    /\ BagIn(BroadcastTask(item), tasks)
    /\ spawned' = [i \in 1 .. Cardinality(peers) |->
                      InventoryTask(CHOOSE q \in peers :
                                        Cardinality({x \in peers : x < q}) = i - 1, item)]
    /\ tasks' = (tasks (-) SetToBag({BroadcastTask(item)})) (+) BagOfSeq(spawned')
    /\ peerAcc' = <<PeerAccess("peers", "read", TRUE)>>
    /\ netOut' = <<>>
    /\ ret' = NoRet
    /\ UNCHANGED <<beaconState, sigCallers, rankCaller, crashed>>
    /\ UNCHANGED <<peers, chainState, inbox, invDone, srvDone, validatorState, nmu, startCall>>

\* A goroutine started by BroadcastItem runs: p.Inventory(n.addr, []ItemID{item}).
Inventory(q, item) ==
    /\ ~crashed
    /\ BagIn(InventoryTask(q, item), tasks)
    /\ tasks' = tasks (-) SetToBag({InventoryTask(q, item)})
    /\ spawned' = <<>>
    /\ netOut' = <<InventoryCall(q, item)>>
    /\ peerAcc' = <<>>
    /\ ret' = NoRet
    /\ UNCHANGED <<beaconState, sigCallers, rankCaller, crashed>>
    /\ UNCHANGED <<peers, chainState, inbox, invDone, srvDone, validatorState, nmu, startCall>>

\* A block a peer announces.
AnnouncedBlock ==
    [T |-> BlockItem, ItemRound |-> 1, Ref |-> CHOOSE r \in NeedRefs : TRUE,
     Hash |-> CHOOSE h \in ChainHashes : TRUE]

\* receiver.Inventory(sender, []ItemID{AnnouncedBlock}) from a connected peer:
\* recvInventory takes n.mu and, the chain not holding the block, calls
\* p.GetData(n.addr, []ItemID{id}) on the sender's Peer, with n.mu held until
\* the call returns.
recvInventoryGetData(sender) ==
    /\ ~crashed
    /\ nmu = 0
    /\ sender \in peers
    /\ InventoryItem(AnnouncedBlock, chainRound) = "get"
    /\ nmu' = 1
    /\ peerAcc' = findOrConnectAccesses(TRUE, TRUE, TRUE)
    /\ netOut' = <<GetDataCall(sender, AnnouncedBlock)>>
    /\ spawned' = <<>>
    /\ ret' = NoRet
    /\ UNCHANGED <<beaconState, sigCallers, rankCaller, crashed, tasks>>
    /\ UNCHANGED <<peers, chainState, inbox, invDone, srvDone, validatorState, startCall>>

\* The p.GetData call of recvInventory returns, which is up to the peer and
\* the transport; the handler ends and its deferred n.mu.Unlock() runs.
recvInventoryReturn ==
    /\ ~crashed
    /\ nmu = 1
    /\ nmu' = 0
    /\ peerAcc' = <<>>
    /\ netOut' = <<>>
    /\ spawned' = <<>>
    /\ ret' = NoRet
    /\ UNCHANGED <<beaconState, sigCallers, rankCaller, crashed, tasks>>
    /\ UNCHANGED <<peers, chainState, inbox, invDone, srvDone, validatorState, startCall>>

\* The signatures and items a goroutine can carry.
TaskSigs == [Round : 1 .. MaxHist, LastRandVal : HashVals, Sig : Sigs]
TaskItems ==
    {SigItemID(r) : r \in TaskSigs}
    \cup {ShareItemID(s) : s \in [Round : 1 .. MaxHist, Owner : 1 .. GroupSize,
                                  LastSigHash : HashVals]}

\* A node with its peers connected; the validator accepts the signatures of
\* vSigs and the shares of the owners of vOwners, which may include an owner
\* whose shares are not genuine.
RecvInit ==
    /\ BeaconInit
    /\ peers = NetAddrs
    /\ chainRound = 1
    /\ chainBlocks = {}
    /\ chainBPs = {}
    /\ chainNtShares = {}
    /\ chainNeedNotarize = {}
    /\ chainFinalized = <<>>
    /\ NetIdle
    /\ tasks = EmptyBag
    /\ spawned = <<>>
    /\ nmu = 0
    /\ startCall = NoStart
    /\ vSigs \in SUBSET Sigs
    /\ vOwners \in {GenuineOwners, 1 .. GroupSize}

RecvNext ==
    \/ \E s \in ShareInputs : RandBeaconSigShare(s)
    \/ \E r \in SigInputs : RandBeaconSig(r)
    \/ \E r \in TaskSigs : RunRecvRandBeaconSig(r)
    \/ \E item \in TaskItems : BroadcastItem(item)
    \/ \E q \in NetAddrs, item \in TaskItems : Inventory(q, item)
    \/ \E sender \in Senders : recvInventoryGetData(sender)
    \/ recvInventoryReturn

SpecRecv == RecvInit /\ [][RecvNext]_vars

\* The items of signatures among TaskItems.
SigItems == {item \in TaskItems : item.T = RandBeaconItem}

\* The Go scheduler runs every goroutine that can run, and a goroutine that
\* waits for a sync.Mutex gets it if it is released again and again.  Of that,
\* only this is assumed: a recvRandBeaconSig goroutine and a p.Inventory of a
\* RandBeaconItem to a given peer each run eventually when one is pending, and
\* the BroadcastItem of a RandBeaconItem runs eventually when n.mu is free
\* again and again.  Nothing is assumed of the network: a call on a peer may
\* never return.
RecvFairness ==
    /\ WF_vars(\E r \in TaskSigs : RunRecvRandBeaconSig(r))
    /\ SF_vars(\E item \in SigItems : BroadcastItem(item))
    /\ \A q \in NetAddrs : WF_vars(\E item \in SigItems : Inventory(q, item))

SpecRecvFair == RecvInit /\ [][RecvNext]_vars /\ RecvFairness

\* The same, when in addition every p.GetData call of recvInventory returns.
SpecRecvReturns == SpecRecvFair /\ WF_vars(recvInventoryReturn)

\* -------------------------------------------------------- Start(seedAddr)
\* The address of the seed node.
SeedAddr == CHOOSE a \in Senders : TRUE

\* err := n.net.Start(n.addr, &receiver{...}): the receiver is registered, so
\* the inbound handlers run from here on; ok is the outcome of the call.
StartListen(ok) ==
    /\ ~crashed /\ startCall.pc = "listen"
    /\ startCall' = IF ok THEN [startCall EXCEPT !.pc = "connect"]
                    ELSE [startCall EXCEPT !.pc = "returned", !.err = "listen"]
    /\ netOut' = <<>>
    /\ peerAcc' = <<>>
    /\ spawned' = <<>>
    /\ ret' = NoRet
    /\ UNCHANGED <<beaconState, sigCallers, rankCaller, crashed, tasks>>
    /\ UNCHANGED <<peers, chainState, inbox, invDone, srvDone, validatorState, nmu>>

\* p, err := n.net.Connect(seedAddr); p.Peers(); under n.mu the seed's Peer
\* and the addresses are stored; then, n.mu released, the loop over
\* n.peerAddrs calls findOrConnect.  connected is the outcome of Connect.
StartConnect(connected) ==
    /\ ~crashed /\ startCall.pc = "connect"
    /\ nmu = 0
    /\ IF ~connected
       THEN /\ startCall' = [startCall EXCEPT !.pc = "returned", !.err = "connect"]
            /\ netOut' = <<ServeConnectCall(SeedAddr)>>
            /\ peerAcc' = <<>>
            /\ UNCHANGED peers
       ELSE /\ startCall' = [startCall EXCEPT !.pc = "sync"]
            /\ netOut' = <<ServeConnectCall(SeedAddr)>>
            /\ peers' = peers \cup {SeedAddr}
            /\ peerAcc' = <<PeerAccess("peers", "write", TRUE),
                            PeerAccess("peerAddrs", "write", TRUE),
                            PeerAccess("peerAddrs", "read", FALSE)>>
                          \o findOrConnectAccesses(TRUE, TRUE, FALSE)
    /\ spawned' = <<>>
    /\ ret' = NoRet
    /\ UNCHANGED <<beaconState, sigCallers, rankCaller, crashed, tasks>>
    /\ UNCHANGED <<chainState, inbox, invDone, srvDone, validatorState, nmu>>

\* rb, bs, err := p.Sync(len(n.chain.RandomBeacon.History())): the seed answers
\* with getSyncData(start) on its own history.
StartSync ==
    /\ ~crashed /\ startCall.pc = "sync" /\ mu = 0
    /\ startCall' = [startCall EXCEPT
                        !.pc = "apply",
                        !.rb = getSyncData(startCall.seed, <<>>, Len(sigHistory)).rb]
    /\ netOut' = <<[call |-> "Sync", to |-> SeedAddr, ids |-> <<>>, locked |-> FALSE]>>
    /\ peerAcc' = <<>>
    /\ spawned' = <<>>
    /\ ret' = NoRet
    /\ UNCHANGED <<beaconState, sigCallers, rankCaller, crashed, tasks>>
    /\ UNCHANGED <<peers, chainState, inbox, invDone, srvDone, validatorState, nmu>>

\* One iteration of `for _, r := range rb`: RecvRandBeaconSig(r), which holds
\* RandomBeacon.mu for its whole body; its error makes Start return it.  After
\* the last one the loop over bs runs (the seed sent no block) and Start
\* returns nil.
StartApply ==
    /\ ~crashed /\ startCall.pc = "apply" /\ mu = 0
    /\ IF startCall.rb = <<>>
       THEN /\ startCall' = [startCall EXCEPT !.pc = "returned", !.err = "nil"]
            /\ ret' = NoRet
            /\ UNCHANGED beaconState
       ELSE LET r == Head(startCall.rb) IN
            IF ~SigRoundOK(r)
            THEN /\ startCall' = [startCall EXCEPT !.pc = "returned", !.err = "round"]
                 /\ ret' = [op |-> "RecvRandBeaconSig", err |-> TRUE, sig |-> NilSig,
                            val |-> <<>>]
                 /\ UNCHANGED beaconState
            ELSE LET b == AcceptSig([hist |-> sigHistory, rb |-> rbRand, nt |-> ntRand,
                                     bp |-> bpRand, hrb |-> nextRBCmteHistory,
                                     hnt |-> nextNtCmteHistory,
                                     hbp |-> nextBPCmteHistory], r)
                 IN  /\ rbRand' = b.rb /\ ntRand' = b.nt /\ bpRand' = b.bp
                     /\ nextRBCmteHistory' = b.hrb
                     /\ nextNtCmteHistory' = b.hnt
                     /\ nextBPCmteHistory' = b.hbp
                     /\ curRoundShares' = EmptyShares
                     /\ sigHistory' = b.hist
                     /\ startCall' = [startCall EXCEPT !.rb = Tail(startCall.rb)]
                     /\ ret' = [op |-> "RecvRandBeaconSig", err |-> FALSE, sig |-> NilSig,
                                val |-> <<>>]
    /\ netOut' = <<>>
    /\ peerAcc' = <<>>
    /\ spawned' = <<>>
    /\ UNCHANGED <<sigCallers, rankCaller, crashed, tasks>>
    /\ UNCHANGED <<peers, chainState, inbox, invDone, srvDone, validatorState, nmu>>

\* The receiver is registered: net.Start has returned without error.
Registered ==
    /\ startCall.pc \in {"connect", "sync", "apply", "returned"}
    /\ startCall.err # "listen"

\* The signatures peers hold and send: those of the seed's history.
SeedSigs == {startCall.seed[i] : i \in 2 .. Len(startCall.seed)}

\* A node that starts: its beacon at rest after a history of its own, the
\* seed's history extending it, no peer connected yet.
StartInit ==
    /\ \E n \in 1 .. MaxHist : \E hist \in Histories(n) : \E k \in 1 .. n :
          /\ BeaconAtRest(BeaconOf(hist, k))
          /\ startCall = [pc |-> "listen", seed |-> hist, rb |-> <<>>, err |-> "none"]
    /\ curRoundShares = EmptyShares
    /\ peers = {}
    /\ chainRound = 1
    /\ chainBlocks = {}
    /\ chainBPs = {}
    /\ chainNtShares = {}
    /\ chainNeedNotarize = {}
    /\ chainFinalized = <<>>
    /\ NetIdle
    /\ tasks = EmptyBag
    /\ spawned = <<>>
    /\ nmu = 0
    /\ vSigs = Sigs
    /\ vOwners = 1 .. GroupSize

StartNext ==
    \/ \E ok \in BOOLEAN : StartListen(ok)
    \/ \E connected \in BOOLEAN : StartConnect(connected)
    \/ StartSync
    \/ StartApply
    \/ \E r \in SeedSigs : Registered /\ RandBeaconSig(r)
    \/ \E item \in TaskItems : BroadcastItem(item)
    \/ \E q \in NetAddrs, item \in TaskItems : Inventory(q, item)

SpecStart == StartInit /\ [][StartNext]_vars

\* ------------------------------------------- GetData of a RandBeaconItem
\* ItemID values a peer asks for once it was told of a signature: the
\* RandBeaconItem of any round, one the node does not have yet and a negative
\* one included (the hash of the item is not read).
FetchItems ==
    [T : {RandBeaconItem}, ItemRound : (-1) .. MaxHist, Ref : NeedRefs, Hash : ChainHashes]

\* receiver.GetData(requester, ids) is called by a peer.
GetData(requester, id) ==
    /\ ~crashed
    /\ inbox = <<>>
    /\ inbox' = <<[requester |-> requester, ids |-> <<id>>]>>
    /\ netOut' = <<>>
    /\ peerAcc' = <<>>
    /\ spawned' = <<>>
    /\ ret' = NoRet
    /\ UNCHANGED <<beaconState, sigCallers, rankCaller, crashed, tasks>>
    /\ UNCHANGED <<peers, chainState, invDone, srvDone, validatorState, nmu, startCall>>

\* if r.round() != s.Round { return error }, negated, on the beacon b of a peer.
PeerSigRoundOK(b, s) == Len(b.hist) = s.Round

\* A node that receives shares and signatures, announces what it accepts and
\* serves the requests of its peers.
FetchNext ==
    \/ \E s \in ShareInputs : RandBeaconSigShare(s)
    \/ \E r \in SigInputs : RandBeaconSig(r)
    \/ \E r \in TaskSigs : RunRecvRandBeaconSig(r)
    \/ \E item \in TaskItems : BroadcastItem(item)
    \/ \E q \in NetAddrs, item \in TaskItems : Inventory(q, item)
    \/ \E q \in Senders, id \in FetchItems : GetData(q, id)
    \/ \E connected \in BOOLEAN : serveData(connected)

FetchInit ==
    /\ RecvInit
    /\ vSigs = Sigs
    /\ vOwners = GenuineOwners

SpecFetch == FetchInit /\ [][FetchNext]_vars

\* ------------------------------------------------------------------ claims
cmteHistories == <<nextRBCmteHistory, nextNtCmteHistory, nextBPCmteHistory>>

\* The holder of r.mu is past the round check of RecvRandBeaconSig.
Advancing(p) ==
    /\ mu = p
    /\ pc[p] \in {"deriveRB", "deriveNt", "deriveBP", "appendBP", "clear", "append"}

\* The step just taken returned from RecvRandBeaconSig without / with an error.
SigAccepted == ret.op = "RecvRandBeaconSig" /\ ~ret.err
SigRejected == ret.op = "RecvRandBeaconSig" /\ ret.err

\* C1: sigHistory is append-only.  A step changes it only as the last step of
\* an accepted RecvRandBeaconSig, which appends its argument (a signature of
\* the current round) and leaves the earlier entries alone; every accepted
\* RecvRandBeaconSig raises Round() by exactly 1 and nothing else changes it.
C1_SigHistoryAppendOnly ==
    [][ /\ (sigHistory' # sigHistory) =>
              /\ SigAccepted'
              /\ \E p \in Procs :
                    /\ pc[p] = "append" /\ pc'[p] = "idle"
                    /\ arg[p].Round = Len(sigHistory)
                    /\ sigHistory' = Append(sigHistory, arg[p])
        /\ SigAccepted' => Len(sigHistory') = Len(sigHistory) + 1
        /\ Len(sigHistory') >= Len(sigHistory) ]_vars

\* A second signature has been accepted.
C1_Witness == SigAccepted /\ round = 3

\* C2 as stated: at rest the three committee histories have length Round()+1.
C2_LengthIsRoundPlusOne ==
    (mu = 0) =>
        /\ Len(nextRBCmteHistory) = round + 1
        /\ Len(nextBPCmteHistory) = round + 1
        /\ Len(nextNtCmteHistory) = round + 1

\* C2, amended: at rest (r.mu free) the three committee histories have equal
\* length, and that length is Round() = len(sigHistory).
C2_LengthIsRound ==
    (mu = 0) =>
        /\ Len(nextRBCmteHistory) = round
        /\ Len(nextBPCmteHistory) = round
        /\ Len(nextNtCmteHistory) = round

\* At rest after two round advances.
C2_Witness == mu = 0 /\ round = 3 /\ Len(nextNtCmteHistory) = 3

\* C3: every share in curRoundShares is stored under its own hash, is of the
\* current round and is bound to the last signature of sigHistory.
C3_SharesOfCurrentRound ==
    \A h \in DOMAIN curRoundShares :
        /\ ShareHash(curRoundShares[h]) = h
        /\ curRoundShares[h].Round = round
        /\ curRoundShares[h].LastSigHash = hash(sigHistory[round].Sig)

\* Shares collected in the round after an advance.
C3_Witness == round >= 2 /\ Cardinality(DOMAIN curRoundShares) >= 2

\* C4 as stated: an accepted share gets a non-nil RandBeaconSig exactly when it
\* is the one that first brings |curRoundShares| to GroupThreshold.
C4_SigReturnedOncePerRound ==
    [][ (ret'.op = "RecvRandBeaconSigShare" /\ ~ret'.err) =>
            ((ret'.sig # NilSig) <=>
                (~ThresholdMet(curRoundShares) /\ ThresholdMet(curRoundShares'))) ]_vars

\* C5: a RandBeaconSig returned by RecvRandBeaconSigShare is for the current
\* round and carries the hash of the last signature; returning it changes
\* neither sigHistory nor the streams nor the committee histories, which change
\* only inside a RecvRandBeaconSig that passed the round check.
C5_ReturnedSigIsCurrentRound ==
    [][ /\ (ret'.op = "RecvRandBeaconSigShare" /\ ret'.sig # NilSig) =>
              /\ ret'.sig.Round = round
              /\ ret'.sig.LastRandVal = hash(sigHistory[round].Sig)
              /\ UNCHANGED <<sigHistory, cmteState>>
        /\ (<<sigHistory, cmteState>>' # <<sigHistory, cmteState>>) =>
              \E p \in Procs : Advancing(p) /\ arg[p].Round = round ]_vars

\* A signature was returned in the second round.
C5_Witness == ret.op = "RecvRandBeaconSigShare" /\ ret.sig # NilSig /\ round = 2

\* C6: a share of another round, or of the current round with another
\* LastSigHash, is rejected with an error and changes nothing in the beacon.
C6_BadShareRejected ==
    [][ ( /\ ret'.op \in {"RecvRandBeaconSigShare", "panic"}
          /\ \/ ret'.val[1] # round
             \/ ret'.val[3] # hash(sigHistory[ret'.val[1]].Sig) )
        => (ret'.op = "RecvRandBeaconSigShare" /\ ret'.err /\ ret'.sig = NilSig
            /\ UNCHANGED beaconState) ]_vars

\* A share was rejected while shares of the second round were held.
C6_Witness ==
    /\ ret.op = "RecvRandBeaconSigShare" /\ ret.err
    /\ round = 2 /\ curRoundShares # EmptyShares

\* C7: RecvRandBeaconSig with s.Round != round() returns an error, and from
\* the moment it holds the lock to its return nothing in the beacon changes.
C7_BadSigRejected ==
    [][ \A p \in Procs :
            (mu = p /\ pc[p] = "check" /\ arg[p].Round # round) =>
                /\ UNCHANGED beaconState
                /\ (pc'[p] # "check") => (SigRejected' /\ pc'[p] = "idle" /\ mu' = 0) ]_vars

\* A signature was rejected while shares of the second round were held.
C7_Witness == SigRejected /\ round = 2 /\ curRoundShares # EmptyShares

\* C8: when an accepted RecvRandBeaconSig(s) returns, with R the round at its
\* round check: Round() is R+1, s is the last entry of sigHistory and the
\* earlier entries are kept, curRoundShares is empty, and each committee
\* history is the one at entry extended by Mod(|groups|) of its stream derived
\* with hash(s.Sig), an index in [0, |groups|).  An operation that takes the
\* lock runs on a state in which no advance is half applied, and Committees()
\* returns three indices in [0, |groups|).
C8_AcceptedSigAdvances ==
    [][ /\ \A p \in Procs :
              (pc[p] = "append" /\ pc'[p] = "idle") =>
                  LET h == hash(arg[p].Sig) IN
                  /\ arg[p].Round = entry.round
                  /\ Len(sigHistory) = entry.round
                  /\ Len(sigHistory') = entry.round + 1
                  /\ Last(sigHistory') = arg[p]
                  /\ SubSeq(sigHistory', 1, entry.round) = sigHistory
                  /\ curRoundShares' = EmptyShares
                  /\ rbRand' = Derive(entry.rb, h)
                  /\ ntRand' = Derive(entry.nt, h)
                  /\ bpRand' = Derive(entry.bp, h)
                  /\ nextRBCmteHistory' = Append(entry.hrb, Mod(rbRand', NGroups))
                  /\ nextNtCmteHistory' = Append(entry.hnt, Mod(ntRand', NGroups))
                  /\ nextBPCmteHistory' = Append(entry.hbp, Mod(bpRand', NGroups))
                  /\ \A i \in 1 .. 3 : Last(cmteHistories'[i]) \in 0 .. (NGroups - 1)
                  /\ mu' = 0
        /\ (ret'.op \in {"GetShare", "Round", "Committees", "History",
                        "RecvRandBeaconSigShare", "panic"}) =>
              /\ entry = NoEntry
              /\ \A i \in 1 .. 3 : Len(cmteHistories[i]) = Len(sigHistory)
        /\ (ret'.op = "Committees") =>
              /\ Len(ret'.val) = 3
              /\ \A i \in 1 .. 3 : ret'.val[i] \in 0 .. (NGroups - 1) ]_vars

\* Committees() was called after a round advance.
C8_Witness == ret.op = "Committees" /\ round >= 2

\* C9 as stated for Rank: the committee index and the stream state a successful
\* Rank computed its result from belong to the same round, that is, the index
\* is the Mod(|groups|) of that stream state.
C9_RankReadsOneRound ==
    (ret.op = "Rank" /\ ~ret.err) => ret.val[2] = Mod(ret.val[3], NGroups)


\* The ItemIDs of the GetData calls made on the sender's Peer, in order.
GetDataIds == [i \in 1 .. Len(SelectSeq(netOut, LAMBDA c : c.call = "GetData")) |->
                  SelectSeq(netOut, LAMBDA c : c.call = "GetData")[i].ids[1]]

\* The items C10 says are fetched.
C10_Fetched(id) ==
    CASE id.T = BlockItem -> id.Hash \notin chainBlocks
      [] id.T = BlockProposalItem -> id.ItemRound = chainRound /\ id.Hash \notin chainBPs
      [] id.T = NtShareItem ->
            /\ id.ItemRound = chainRound
            /\ id.Hash \notin chainNtShares
            /\ id.Ref \in chainNeedNotarize
      [] id.T = RandBeaconShareItem ->
            id.ItemRound = chainRound /\ id.Hash \notin DOMAIN curRoundShares
      [] id.T = RandBeaconItem -> id.ItemRound = chainRound
      [] OTHER -> FALSE

\* C10 as stated: once recvInventory has the sender's Peer, the GetData calls it
\* makes are, in order, one call for exactly each announced ItemID that is a
\* BlockItem the chain does not hold, or a BlockProposalItem, NtShareItem,
\* RandBeaconShareItem or RandBeaconItem of the current round that is not
\* known yet (and, for an NtShareItem, whose Ref needs notarizing); no GetData
\* is made for any other id.
C10_InventoryFetchGating ==
    (invDone.outcome \in {"done", "panic"}) =>
        /\ \A i \in 1 .. Len(netOut) :
              netOut[i].call = "GetData" =>
                  (netOut[i].to = invDone.sender /\ Len(netOut[i].ids) = 1)
        /\ GetDataIds = SelectSeq(invDone.ids, C10_Fetched)

\* The calls serveData made on the requester's Peer, in order.
ServeSends == SelectSeq(netOut, LAMBDA c : c.call # "Connect")

\* The node holds the item id names: the lookup of serveData finds it.
C11_Held(id) ==
    CASE id.T = BlockItem -> id.Hash \in chainBlocks
      [] id.T = BlockProposalItem -> id.Hash \in chainBPs
      [] id.T = NtShareItem -> id.Hash \in chainNtShares
      [] id.T = RandBeaconShareItem -> id.Hash \in DOMAIN curRoundShares
      [] id.T = RandBeaconItem -> id.ItemRound >= 0 /\ id.ItemRound < Len(sigHistory)
      [] OTHER -> FALSE

\* The request serveData stops at: a TxnItem, a SysTxnItem or a RandBeaconItem
\* of a negative round.
C11_Stops(id) ==
    \/ id.T \in {TxnItem, SysTxnItem}
    \/ id.T = RandBeaconItem /\ id.ItemRound < 0

\* The requests before the first one serveData stops at.
C11_Reached(ids) ==
    IF \E i \in 1 .. Len(ids) : C11_Stops(ids[i])
    THEN SubSeq(ids, 1, (CHOOSE i \in 1 .. Len(ids) :
                            C11_Stops(ids[i]) /\ \A j \in 1 .. (i - 1) : ~C11_Stops(ids[j])) - 1)
    ELSE ids

\* C11: every item serveData sends answers a requested ItemID, goes to the
\* requester, and is an item the node holds: the block, proposal or
\* notarization share of that hash, the share curRoundShares holds under that
\* hash, or, for a RandBeaconItem, history[ItemRound] with ItemRound below
\* len(history).  A request whose lookup fails is skipped and the requests
\* after it are still served: the requests answered are, in order, the held
\* ones among those the loop reaches.
C11_ServeOnlyHeld ==
    (srvDone.outcome \in {"done", "panic"}) =>
        /\ \A i \in 1 .. Len(ServeSends) :
              LET c == ServeSends[i]
                  id == c.ids[1]
              IN  /\ c.to = srvDone.requester
                  /\ C11_Held(id)
                  /\ CASE c.call = "Block" -> id.T = BlockItem /\ c.data = id.Hash
                       [] c.call = "BlockProposal" -> id.T = BlockProposalItem /\ c.data = id.Hash
                       [] c.call = "NotarizationShare" -> id.T = NtShareItem /\ c.data = id.Hash
                       [] c.call = "RandBeaconSigShare" ->
                             /\ id.T = RandBeaconShareItem
                             /\ c.data = curRoundShares[id.Hash]
                             /\ ShareHash(c.data) = id.Hash
                       [] c.call = "RandBeaconSig" ->
                             /\ id.T = RandBeaconItem
                             /\ c.data = sigHistory[id.ItemRound + 1]
                       [] OTHER -> FALSE
        /\ [i \in 1 .. Len(ServeSends) |-> ServeSends[i].ids[1]]
              = SelectSeq(C11_Reached(srvDone.ids), C11_Held)

\* A request that is skipped (a RandBeaconItem of a round the history does not
\* reach) was followed by one that is served with a signature of the history.
C11_Witness ==
    /\ srvDone.outcome = "done"
    /\ Len(srvDone.ids) = 2
    /\ srvDone.ids[1].T = RandBeaconItem /\ srvDone.ids[1].ItemRound >= Len(sigHistory)
    /\ Len(ServeSends) = 1
    /\ ServeSends[1].call = "RandBeaconSig" /\ ServeSends[1].data.Round = 1

\* C12 as stated: the Networking lock is never held while network I/O is
\* performed: no call of Network.Connect or of a Peer method is made while
\* n.mu is held.
C12_NoNetworkIOUnderLock ==
    \A i \in 1 .. Len(netOut) : ~netOut[i].locked

\* C13 as stated: every read and write of Networking's peer table and address
\* set happens while n.mu is held.
C13_PeerTableUnderLock ==
    \A i \in 1 .. Len(peerAcc) : peerAcc[i].locked

\* The members of the current block-proposal committee.
BPCommittee == Groups[Last(nextBPCmteHistory) + 1]

\* C14: in every beacon state the ranks of the members of the current
\* block-proposal committee, Perm(i+1, |Members|)[i] on the bp stream for the
\* member at index i, lie in [0, |Members|) and are distinct for distinct
\* indices; and a call of Rank returns an error exactly when the address is
\* not a member of the committee it read, and otherwise the rank of that
\* member's index.
C14_RankInjective ==
    /\ [](\A i, j \in 0 .. (Len(BPCommittee) - 1) :
              /\ RankOf(bpRand, BPCommittee, i) \in 0 .. (Len(BPCommittee) - 1)
              /\ (i # j) => RankOf(bpRand, BPCommittee, i) # RankOf(bpRand, BPCommittee, j))
    /\ [][ (rankPc = "perm" /\ rankPc' = "idle") =>
              LET g == Groups[rankBP + 1]
                  idx == MemberIndex(g, rankAddr)
              IN  /\ ret'.op = "Rank"
                  /\ ret'.err <=> (\A i \in 1 .. Len(g) : g[i] # rankAddr)
                  /\ ~ret'.err =>
                        /\ g[idx + 1] = rankAddr
                        /\ ret'.val[1] = Perm(bpRand, idx + 1, Len(g))[idx + 1]
                        /\ ret'.val[1] \in 0 .. (Len(g) - 1) ]_vars

\* Rank returned a rank other than the member's index, in the third round.
C14_Witness ==
    /\ ret.op = "Rank" /\ ~ret.err /\ round = 3 /\ mu = 0
    /\ ret.val[2] = Last(nextBPCmteHistory)
    /\ ret.val[1] # 0

\* The beacon that NewRandomBeacon(Seed, Groups) becomes by accepting, in
\* order, the signatures of sigHistory: a function of Seed, Groups and
\* sigHistory alone.
PureBeacon == BeaconOf(sigHistory, Len(sigHistory))

\* C15: whenever no RecvRandBeaconSig is in progress, the streams and the three
\* committee histories are those of PureBeacon, whatever shares and rejected
\* signatures and shares the beacon processed; so are the result of
\* Committees() and the result of a Rank that read its committee and its
\* stream from such a state.  Two beacons with the same seed, groups and
\* sigHistory therefore agree on all of them.
C15_CommitteesPureFunction ==
    /\ []((mu = 0) =>
            /\ rbRand = PureBeacon.rb /\ ntRand = PureBeacon.nt /\ bpRand = PureBeacon.bp
            /\ nextRBCmteHistory = PureBeacon.hrb
            /\ nextNtCmteHistory = PureBeacon.hnt
            /\ nextBPCmteHistory = PureBeacon.hbp)
    /\ [][ /\ (ret'.op = "Committees") =>
                 ret'.val = <<Last(PureBeacon.hrb), Last(PureBeacon.hbp), Last(PureBeacon.hnt)>>
           /\ (rankPc = "perm" /\ rankPc' = "idle" /\ mu = 0
                 /\ rankBP = Last(nextBPCmteHistory)) =>
                 LET g == Groups[Last(PureBeacon.hbp) + 1]
                     idx == MemberIndex(g, rankAddr)
                 IN  /\ ret'.err <=> (idx < 0)
                     /\ (idx >= 0) => ret'.val[1] = Perm(PureBeacon.bp, idx + 1, Len(g))[idx + 1] ]_vars

\* Rank returned, at rest in the third round, on a beacon that holds shares.
C15_Witness ==
    /\ ret.op = "Rank" /\ ~ret.err /\ mu = 0 /\ round = 3
    /\ ret.val[2] = Last(nextBPCmteHistory) /\ ret.val[3] = bpRand
    /\ curRoundShares # EmptyShares

HandledShare == [Round |-> ret.val[1], Owner |-> ret.val[2], LastSigHash |-> ret.val[3]]

\* C17: a share the validator and the beacon accept makes the handler start
\* exactly one goroutine: recvRandBeaconSig on the signature the beacon
\* returned, when it returned one, and otherwise BroadcastItem on the
\* RandBeaconShareItem of that share; a share either of them rejects starts
\* none and changes nothing in the beacon.  recvRandBeaconSig on a signature
\* (received, or handed over by the share handler) starts BroadcastItem on the
\* RandBeaconItem of the signature's round exactly when the validator and
\* RecvRandBeaconSig accept it, and otherwise starts nothing and changes
\* nothing.  No other step starts a broadcast of either item.
C17_ShareHandledOneWay ==
    [][ /\ (ret'.op = "recvRandBeaconSigShare") =>
              IF ret'.err
              THEN /\ spawned' = <<>>
                   /\ tasks' = tasks
                   /\ UNCHANGED beaconState
              ELSE /\ HandledShare'.Owner \in vOwners
                   /\ HandledShare'.Round = round
                   /\ ShareHash(HandledShare') \in DOMAIN curRoundShares'
                   /\ spawned' = (IF ret'.sig # NilSig
                                  THEN <<RecvSigTask(ret'.sig)>>
                                  ELSE <<BroadcastTask(ShareItemID(HandledShare'))>>)
                   /\ tasks' = tasks (+) BagOfSeq(spawned')
                   /\ UNCHANGED <<sigHistory, cmteState>>
        /\ (ret'.op = "recvRandBeaconSig") =>
              IF ret'.err
              THEN /\ spawned' = <<>>
                   /\ UNCHANGED beaconState
              ELSE /\ ret'.sig.Sig \in vSigs
                   /\ ret'.sig.Round = round
                   /\ sigHistory' = Append(sigHistory, ret'.sig)
                   /\ spawned' = <<BroadcastTask([T |-> RandBeaconItem, ItemRound |-> round,
                                                  Ref |-> 0, Hash |-> SigHash(ret'.sig)])>>
        /\ \A r \in TaskSigs :
              (CopiesIn(RecvSigTask(r), tasks') < CopiesIn(RecvSigTask(r), tasks)) =>
                  (ret'.op = "recvRandBeaconSig" /\ ret'.sig = r)
        /\ \A i \in 1 .. Len(spawned') :
              /\ (spawned'[i].fn = "recvRandBeaconSig") =>
                    (ret'.op = "recvRandBeaconSigShare" /\ ~ret'.err)
              /\ (spawned'[i].fn = "BroadcastItem") =>
                    \/ ret'.op = "recvRandBeaconSigShare" /\ ~ret'.err /\ ret'.sig = NilSig
                    \/ ret'.op = "recvRandBeaconSig" /\ ~ret'.err ]_vars

\* In the second round a share brought the beacon to its threshold and the
\* handler handed the signature it returned to recvRandBeaconSig.
C17_Witness ==
    /\ ret.op = "recvRandBeaconSigShare" /\ ~ret.err /\ ret.sig # NilSig
    /\ round = 2 /\ ret.sig.Round = 2
    /\ spawned = <<RecvSigTask(ret.sig)>>

\* The node, in round R, has just received the share that brings the shares it
\* holds to GroupThreshold: the beacon returned the recovered signature, which
\* the validator accepts, and the validator accepts genuine shares only.
C18_ThresholdReached(R) ==
    /\ round = R
    /\ ret.op = "recvRandBeaconSigShare" /\ ~ret.err /\ ret.sig # NilSig
    /\ Cardinality(DOMAIN curRoundShares) >= GroupThreshold
    /\ ret.sig.Sig \in vSigs
    /\ vOwners \subseteq GenuineOwners

\* p.Inventory(n.addr, [item]) has just been called on the peer q for the
\* RandBeaconItem of round R.
C18_InventorySent(q, R) ==
    \E i \in 1 .. Len(netOut) :
        /\ netOut[i].call = "Inventory" /\ netOut[i].to = q
        /\ netOut[i].ids[1].T = RandBeaconItem /\ netOut[i].ids[1].ItemRound = R

C19_SyncAppliedInOrder ==
    /\ startCall.err # "round"
    /\ (startCall.err = "nil") => Len(sigHistory) >= Len(startCall.seed)

\* C20: an Inventory that holds a TxnItem or a SysTxnItem is handled as a
\* recoverable error: recvInventory asks for no such item, returns normally
\* and leaves the process running, so that later artifacts are handled.
C20_TxnInventoryRecoverable ==
    (invDone.outcome \in {"done", "panic"}
        /\ \E i \in 1 .. Len(invDone.ids) : invDone.ids[i].T \in {TxnItem, SysTxnItem}) =>
        /\ \A i \in 1 .. Len(GetDataIds) : GetDataIds[i].T \notin {TxnItem, SysTxnItem}
        /\ invDone.outcome = "done"
        /\ ~crashed

\* The RandBeaconSig calls among the calls of the step just taken, each the
\* answer of serveData to a request for a RandBeaconItem.
C21_SigsServed == SelectSeq(netOut, LAMBDA c : c.call = "RandBeaconSig")

\* C21: sigHistory[i].Round = i for every index i from 1 on (Go counts from 0,
\* so this is the entry i + 1 here); serveData answers a request for the
\* RandBeaconItem of a round i it has with the signature of round i; and a
\* peer in round i, whose beacon holds the first i signatures, passes the
\* round check of its RecvRandBeaconSig on that signature.
C21_HistoryRoundIsIndex ==
    /\ \A i \in 1 .. (Len(sigHistory) - 1) : sigHistory[i + 1].Round = i
    /\ \A k \in 1 .. Len(C21_SigsServed) :
          LET c == C21_SigsServed[k]
              i == c.ids[1].ItemRound
          IN  /\ i < Len(sigHistory)
              /\ c.data = sigHistory[i + 1]
              /\ c.data.Round = i
              /\ (i >= 1) => PeerSigRoundOK(BeaconOf(sigHistory, i), c.data)

\* The node accepted two signatures, announced the second and now answers a
\* request for the RandBeaconItem of round 2.
C21_Witness ==
    /\ Len(sigHistory) = 3
    /\ Len(C21_SigsServed) = 1
    /\ C21_SigsServed[1].ids[1].ItemRound = 2
    /\ C21_SigsServed[1].data.Round = 2

====
